---- MODULE Spec2Model ----
(***************************************************************************)
(* Model of the knative-serving-operator: the manifest engine              *)
(* (pkg/manifests: YamlFile.Apply / YamlFile.Delete / ResourceNames and    *)
(* their helpers) driven by the Install controller's Reconcile.            *)
(*                                                                         *)
(* Strings that the code inspects character by character (kind,            *)
(* apiVersion) are sequences of one-character strings; names, namespaces   *)
(* and owner identities are opaque and stay TLA+ strings.                  *)
(***************************************************************************)
EXTENDS Integers, Sequences, FiniteSets, TLC

\* ------------------------------------------------------------------ bounds
\* longest manifest (number of decoded documents) that Init draws
MaxLen == 3
\* remote calls that may answer with an error other than not-found / already-exists
MaxFaults == 1
\* mutations of the remote store by actors other than the engine
MaxExternal == 1
\* longest manifest drawn when two Install objects share the engine
MaxLenTwo == 2
\* longest kind, before any ending is put on it, that pluralize is given
MaxKindLen == 3
\* most documents in a manifest file that is longer than a channel holds
MaxDocs == 12

\* ------------------------------------------------------------- strings
NIL == "nil"

UpperCase == <<"A","B","C","D","E","F","G","H","I","J","K","L","M",
               "N","O","P","Q","R","S","T","U","V","W","X","Y","Z">>
LowerCase == <<"a","b","c","d","e","f","g","h","i","j","k","l","m",
               "n","o","p","q","r","s","t","u","v","w","x","y","z">>

\* unicode.ToLower on the letters of the alphabet, the identity elsewhere
LowerOf == [i \in 1..Len(UpperCase) |-> LowerCase[i]]
UpperSet == {UpperCase[i] : i \in 1..Len(UpperCase)}

LowerChar(c) ==
  IF c \in UpperSet
  THEN LowerOf[CHOOSE i \in 1..Len(UpperCase) : UpperCase[i] = c]
  ELSE c

\* strings.ToLower
ToLower(s) == [i \in 1..Len(s) |-> LowerChar(s[i])]

\* strings.HasSuffix
HasSuffix(s, suffix) ==
  /\ Len(s) >= Len(suffix)
  /\ SubSeq(s, Len(s) - Len(suffix) + 1, Len(s)) = suffix

\* strings.Count(s, "/")
CountSlash(s) == Cardinality({i \in 1..Len(s) : s[i] = "/"})

\* strings.Index(s, "/")
IndexSlash(s) == CHOOSE i \in 1..Len(s) : s[i] = "/" /\ \A j \in 1..(i-1) : s[j] # "/"

\* the kinds and apiVersions that occur in the manifests drawn by Init
KNamespace  == <<"N","a","m","e","s","p","a","c","e">>
KDeployment == <<"D","e","p","l","o","y","m","e","n","t">>
KCrd        == <<"c","u","s","t","o","m","r","e","s","o","u","r","c","e",
                 "d","e","f","i","n","i","t","i","o","n">>
KService    == <<"S","e","r","v","i","c","e">>
KIngress    == <<"I","n","g","r","e","s","s">>
KNetworkPolicy == <<"N","e","t","w","o","r","k","P","o","l","i","c","y">>
VCore       == <<"v","1">>
VApps       == <<"a","p","p","s","/","v","1">>
VBad        == <<"a","/","b","/","c">>

\* ------------------------------------------------------ pure functions
\* schema.ParseGroupVersion as called by client(): an error for more than one "/"
ParseGroupVersion(gv) ==
  IF Len(gv) = 0 \/ gv = <<"/">>
  THEN [err |-> FALSE, group |-> <<>>, version |-> <<>>]
  ELSE IF CountSlash(gv) = 0
  THEN [err |-> FALSE, group |-> <<>>, version |-> gv]
  ELSE IF CountSlash(gv) = 1
  THEN [err |-> FALSE,
        group |-> SubSeq(gv, 1, IndexSlash(gv) - 1),
        version |-> SubSeq(gv, IndexSlash(gv) + 1, Len(gv))]
  ELSE [err |-> TRUE, group |-> <<>>, version |-> <<>>]

\* (mutation) the "policy" case is missing
pluralizeNoPolicy(kind) ==
  LET ret == ToLower(kind) IN
  IF HasSuffix(ret, <<"s">>) THEN ret \o <<"e","s">> ELSE ret \o <<"s">>

pluralize(kind) ==
  LET ret == ToLower(kind) IN
  IF HasSuffix(ret, <<"s">>) THEN ret \o <<"e","s">>
  ELSE IF HasSuffix(ret, <<"p","o","l","i","c","y">>)
  THEN SubSeq(ret, 1, Len(ret) - 1) \o <<"i","e","s">>
  ELSE ret \o <<"s">>

ExemptKinds ==
  { <<"n","a","m","e","s","p","a","c","e">>,
    <<"c","l","u","s","t","e","r","r","o","l","e">>,
    <<"c","l","u","s","t","e","r","r","o","l","e","b","i","n","d","i","n","g">>,
    KCrd }

\* (mutation) the kind is compared as written, not lower-cased
isClusterScopedExact(kind) == kind \in ExemptKinds

isClusterScoped(kind) == ToLower(kind) \in ExemptKinds

\* the nil ResourceInterface that client() returns with an error
NoEndpoint ==
  [group |-> <<>>, version |-> <<>>, resource |-> <<>>, namespace |-> "", name |-> ""]

\* client(): the endpoint a resource is addressed at, or a resolution error
client(spec) ==
  LET gv == ParseGroupVersion(spec.apiVersion) IN
  IF gv.err
  THEN [err |-> TRUE, key |-> NoEndpoint]
  ELSE [err |-> FALSE,
        key |-> [group |-> gv.group, version |-> gv.version,
                 resource |-> pluralize(spec.kind),
                 namespace |-> spec.namespace, name |-> spec.name]]


\* ResourceNames(): nil for an empty manifest (var names []string), else one
\* "name (group/version, Kind=kind)" identifier per stored resource, in order
ResourceNames(rs) ==
  [nil |-> Len(rs) = 0,
   items |-> [i \in 1..Len(rs) |-> <<rs[i].name, rs[i].apiVersion, rs[i].kind>>]]

\* (mutation) the copy is left in file order
NoReverse(s) == s

\* the reversal loop of Delete, applied to the copy a of f.resources
Reverse(s) == [i \in 1..Len(s) |-> s[Len(s) - i + 1]]

\* a := copy(f.resources) reversed; the copies share their maps with the
\* stored resources, so a[i] is the position of the stored resource it aliases
ReversedCopy(rs) == Reverse([i \in 1..Len(rs) |-> i])

\* spec.SetOwnerReferences([]v1.OwnerReference{*owner}) on the loop variable:
\* spec is a struct copy whose Object map is the stored resource's map
SetOwnerReferences(rs, i, owner) == [rs EXCEPT ![i].ownerReferences = <<owner>>]

\* -------------------------------------------------------------- inputs
\* the Install objects of the run
Installs == {"i1"}

Document(kind, apiVersion, namespace, name, refs) ==
  [kind |-> kind, apiVersion |-> apiVersion, namespace |-> namespace,
   name |-> name, ownerReferences |-> refs]

\* the decoded documents a manifest is drawn from
Catalog ==
  { Document(KNamespace, VCore, "", "knative-serving", <<>>),
    Document(KDeployment, VApps, "knative-serving", "activator", <<>>),
    Document(KCrd, VApps, "", "images", <<"chart">>),
    Document(KService, VBad, "knative-serving", "controller", <<>>) }

\* a name is unique within its collection and namespace, so the documents of
\* one manifest are distinct
Manifests ==
  UNION {{m \in [1..n -> Catalog] : \A i, j \in 1..n : m[i] = m[j] => i = j}
           : n \in 0..MaxLen}

\* --------------------------------------------------------------- state
VARIABLES
  resources,   \* f.resources: the engine's stored manifest
  remote,      \* the remote store: the objects that exist, each with the
               \* caller whose Apply created it (by), or "external"
  installs,    \* the Install objects: phase and status
  queue,       \* the controller's work queue of reconcile requests
  pc,          \* where the reconcile worker is
  req,         \* the request the worker is processing (the owner passed to Apply)
  pos,         \* loop position of the running Apply / Delete
  a,           \* Delete's reversed copy
  calls,       \* remote calls issued by the running (or last) Apply / Delete
  ret,         \* what the last Apply / Delete returned
  faults,      \* remote errors injected so far
  externals,   \* external mutations of the remote store so far
  run,         \* history: Apply calls completed since the empty store, undisturbed
  snap,        \* history: the remote store when the first such Apply returned
  parsed,      \* history: the manifest as parse() produced it
  extDeleted,  \* history: another actor has removed an object
  file,        \* the manifest file: whether it opens, and its documents
  proc,        \* the operator process: running, or crashed by a panic
  rpc,         \* where the goroutine read() is
  rpos,        \* the next document manifests.Read returns
  in,          \* the channel in (sink): documents as read
  inClosed,    \* times close(sink) has been called
  dpc,         \* where the goroutine decode() is
  dbuf,        \* decode's spec, decoded and waiting to be sent
  out,         \* the channel out: decoded resources
  outClosed,   \* times close(out) has been called
  ppc,         \* where parse() is: ranging over out, or returned
  result,      \* parse's result slice
  pKind,       \* pluralize: the kind passed in
  pDone,       \* pluralize has returned
  pResource,   \* pluralize: the string returned
  wqueue,      \* worker pool: the work queue
  winstalls,   \* worker pool: the Install objects, phase and whether applied
  working      \* worker pool: what each worker is doing

\* the controller and its engine
controller == <<resources, remote, installs, queue, pc, req, pos, a, calls, ret,
                faults, externals, run, snap, parsed, extDeleted>>
\* the goroutines of parse()
pipeline == <<file, proc, rpc, rpos, in, inClosed, dpc, dbuf, out, outClosed, ppc, result>>
\* a call of pluralize()
plural == <<pKind, pDone, pResource>>
\* the controller's workers
pool == <<wqueue, winstalls, working>>
\* what the steps of the controller and its engine leave alone
others == <<pipeline, plural, pool>>

vars == <<controller, others>>

NoRet == [call |-> "none", err |-> NIL, at |-> 0]
NilList == [nil |-> TRUE, items |-> <<>>]
NoStatus == [resources |-> NilList, version |-> NIL]

\* a document of the manifest file as manifests.Read returns it: text that
\* decodes to a resource ("yaml"), text that does not decode ("garbage"), or
\* no text at all ("empty")
RawDoc(kind, body) == [kind |-> kind, body |-> body]
NoSpec == [kind |-> "none"]

\* yaml.NewYAMLToJSONDecoder(bytes.NewReader(buf)).Decode(&spec)
Decode(buf) ==
  CASE buf.kind = "yaml"    -> [err |-> NIL, spec |-> buf.body]
    [] buf.kind = "empty"   -> [err |-> "EOF", spec |-> NoSpec]
    [] OTHER                -> [err |-> "decode", spec |-> NoSpec]

\* parse() has returned rs: both goroutines are over, both channels closed
ParseReturned(rs) ==
  /\ file = [opens |-> TRUE, docs |-> [i \in 1..Len(rs) |-> RawDoc("yaml", rs[i])]]
  /\ proc = "running"
  /\ rpc = "done" /\ rpos = Len(rs) + 1
  /\ in = <<>> /\ inClosed = 1
  /\ dpc = "done" /\ dbuf = NoSpec
  /\ out = <<>> /\ outClosed = 1
  /\ ppc = "returned" /\ result = rs

\* no call of pluralize() is being looked at
NoPlural == pKind = <<>> /\ pDone = FALSE /\ pResource = <<>>

\* the worker pool is not being looked at
NoPool == wqueue = {} /\ winstalls = <<>> /\ working = <<>>

Init ==
  /\ resources \in Manifests
  /\ ParseReturned(resources) /\ NoPlural /\ NoPool
  /\ parsed = resources
  /\ remote = {}
  /\ installs = [i \in Installs |-> [phase |-> "new", status |-> NoStatus]]
  /\ queue = {}
  /\ pc = "idle"
  /\ req = NIL
  /\ pos = 0
  /\ a = <<>>
  /\ calls = <<>>
  /\ ret = NoRet
  /\ faults = 0
  /\ externals = 0
  /\ run = "fresh"
  /\ snap = {}
  /\ extDeleted = FALSE

Exists(key) == \E o \in remote : o.key = key

Call(op, idx, answer) == [op |-> op, idx |-> idx, out |-> answer]

\* history bookkeeping
Disturbed == run' = "dirty" /\ snap' = {}
ApplyReturned ==
  /\ run' = CASE run = "fresh" -> "once"
              [] run = "once" -> "twice"
              [] run = "twice" -> "more"
              [] OTHER -> run
  /\ snap' = IF run = "fresh" THEN remote ELSE snap


\* the worker's locals go out of scope when Reconcile returns
Returned ==
  /\ pc' = "idle"
  /\ req' = NIL
  /\ pos' = 0
  /\ a' = <<>>
  /\ calls' = <<>>
  /\ ret' = NoRet

\* ------------------------------------------------- Reconcile: the fetch
\* r.client.Get fails with an error other than not-found: the request is requeued
FetchError ==
  /\ pc = "idle" /\ faults < MaxFaults
  /\ queue # {}
  /\ faults' = faults + 1
  /\ UNCHANGED <<resources, remote, installs, queue, pc, req, pos, a, calls, ret,
                 externals, run, snap, parsed, extDeleted, others>>

\* (mutation) Delete reverses f.resources itself instead of a copy
FetchNotFoundInPlace ==
  /\ pc = "idle"
  /\ \E i \in queue :
       /\ installs[i].phase # "present"
       /\ req' = i
       /\ queue' = queue \ {i}
  /\ resources' = Reverse(resources)
  /\ a' = [i \in 1..Len(resources) |-> i]
  /\ pos' = 1
  /\ pc' = "delete"
  /\ Disturbed
  /\ UNCHANGED <<remote, installs, calls, ret, faults, externals, parsed, extDeleted, others>>

\* the Install is not found: r.config.Delete() starts with its reversed copy
FetchNotFound ==
  /\ pc = "idle"
  /\ \E i \in queue :
       /\ installs[i].phase # "present"
       /\ req' = i
       /\ queue' = queue \ {i}
  /\ a' = ReversedCopy(resources)
  /\ pos' = 1
  /\ pc' = "delete"
  /\ Disturbed
  /\ UNCHANGED <<resources, remote, installs, calls, ret, faults, externals, parsed, extDeleted, others>>

\* (mutation) the status check is skipped: Apply starts whatever the status is
FetchAppliedReapplies ==
  /\ pc = "idle"
  /\ \E i \in queue :
       /\ installs[i].phase = "present"
       /\ ~installs[i].status.resources.nil
       /\ req' = i
       /\ queue' = queue \ {i}
  /\ pos' = 1
  /\ pc' = "applyGet"
  /\ UNCHANGED <<resources, remote, installs, a, calls, ret,
                 faults, externals, run, snap, parsed, extDeleted, others>>

\* instance.Status.Resources != nil: already applied, nothing to do
FetchApplied ==
  /\ pc = "idle"
  /\ \E i \in queue :
       /\ installs[i].phase = "present"
       /\ ~installs[i].status.resources.nil
       /\ queue' = queue \ {i}
  /\ UNCHANGED <<resources, remote, installs, pc, req, pos, a, calls, ret,
                 faults, externals, run, snap, parsed, extDeleted, others>>

\* the Install exists with no status yet: r.config.Apply(instance) starts
FetchApply ==
  /\ pc = "idle"
  /\ \E i \in queue :
       /\ installs[i].phase = "present"
       /\ installs[i].status.resources.nil
       /\ req' = i
       /\ queue' = queue \ {i}
  /\ pos' = 1
  /\ pc' = "applyGet"
  /\ UNCHANGED <<resources, remote, installs, a, calls, ret,
                 faults, externals, run, snap, parsed, extDeleted, others>>

\* ---------------------------------------------------------------- Apply
\* client() fails for the resource at pos: Apply returns the error
ApplyResolveError ==
  /\ pc = "applyGet" /\ pos <= Len(resources)
  /\ client(resources[pos]).err
  /\ ret' = [call |-> "Apply", err |-> "resolve", at |-> pos]
  /\ pc' = "failed"
  /\ ApplyReturned
  /\ UNCHANGED <<resources, remote, installs, queue, req, pos, a, calls,
                 faults, externals, parsed, extDeleted, others>>

\* (mutation) any error of the existence check is taken for not-found
ApplyGetErrorAsNotFound ==
  /\ pc = "applyGet" /\ pos <= Len(resources)
  /\ ~client(resources[pos]).err
  /\ faults < MaxFaults
  /\ faults' = faults + 1
  /\ calls' = Append(calls, Call("get", pos, "error"))
  /\ resources' = IF ~isClusterScoped(resources[pos].kind)
                  THEN SetOwnerReferences(resources, pos, req)
                  ELSE resources
  /\ pc' = "applyCreate"
  /\ Disturbed
  /\ UNCHANGED <<remote, installs, queue, req, pos, a, ret, externals, parsed, extDeleted, others>>

\* c.Get fails with an error other than not-found: Apply returns the error
ApplyGetError ==
  /\ pc = "applyGet" /\ pos <= Len(resources)
  /\ ~client(resources[pos]).err
  /\ faults < MaxFaults
  /\ faults' = faults + 1
  /\ calls' = Append(calls, Call("get", pos, "error"))
  /\ ret' = [call |-> "Apply", err |-> "get", at |-> pos]
  /\ pc' = "failed"
  /\ Disturbed
  /\ UNCHANGED <<resources, remote, installs, queue, req, pos, a, externals, parsed, extDeleted, others>>

\* (mutation) the found branch falls through to the create
ApplyGetFoundFallsThrough ==
  /\ pc = "applyGet" /\ pos <= Len(resources)
  /\ ~client(resources[pos]).err
  /\ Exists(client(resources[pos]).key)
  /\ calls' = Append(calls, Call("get", pos, "found"))
  /\ pc' = "applyCreate"
  /\ UNCHANGED <<resources, remote, installs, queue, req, pos, a, ret,
                 faults, externals, run, snap, parsed, extDeleted, others>>

\* c.Get finds the object: continue with the next resource
ApplyGetFound ==
  /\ pc = "applyGet" /\ pos <= Len(resources)
  /\ ~client(resources[pos]).err
  /\ Exists(client(resources[pos]).key)
  /\ calls' = Append(calls, Call("get", pos, "found"))
  /\ pos' = pos + 1
  /\ UNCHANGED <<resources, remote, installs, queue, pc, req, a, ret,
                 faults, externals, run, snap, parsed, extDeleted, others>>

\* c.Get answers not-found: tag the owner unless cluster-scoped, then create
ApplyGetNotFound ==
  /\ pc = "applyGet" /\ pos <= Len(resources)
  /\ ~client(resources[pos]).err
  /\ ~Exists(client(resources[pos]).key)
  /\ calls' = Append(calls, Call("get", pos, "notfound"))
  /\ resources' = IF ~isClusterScoped(resources[pos].kind)
                  THEN SetOwnerReferences(resources, pos, req)
                  ELSE resources
  /\ pc' = "applyCreate"
  /\ UNCHANGED <<remote, installs, queue, req, pos, a, ret,
                 faults, externals, run, snap, parsed, extDeleted, others>>

\* (mutation) the create error is logged and the loop goes on
ApplyCreateErrorSwallowed ==
  /\ pc = "applyCreate"
  /\ faults < MaxFaults
  /\ faults' = faults + 1
  /\ calls' = Append(calls, Call("create", pos, "error"))
  /\ pos' = pos + 1
  /\ pc' = "applyGet"
  /\ Disturbed
  /\ UNCHANGED <<resources, remote, installs, queue, req, a, ret, externals, parsed, extDeleted, others>>

\* c.Create fails with an error other than already-exists: Apply returns it
ApplyCreateError ==
  /\ pc = "applyCreate"
  /\ faults < MaxFaults
  /\ faults' = faults + 1
  /\ calls' = Append(calls, Call("create", pos, "error"))
  /\ ret' = [call |-> "Apply", err |-> "create", at |-> pos]
  /\ pc' = "failed"
  /\ Disturbed
  /\ UNCHANGED <<resources, remote, installs, queue, req, pos, a, externals, parsed, extDeleted, others>>

\* (mutation) already-exists is returned like any other create error
ApplyCreateExistsReturned ==
  /\ pc = "applyCreate"
  /\ Exists(client(resources[pos]).key)
  /\ calls' = Append(calls, Call("create", pos, "exists"))
  /\ ret' = [call |-> "Apply", err |-> "create", at |-> pos]
  /\ pc' = "failed"
  /\ UNCHANGED <<resources, remote, installs, queue, req, pos, a,
                 faults, externals, run, snap, parsed, extDeleted, others>>

\* c.Create answers already-exists: continue
ApplyCreateExists ==
  /\ pc = "applyCreate"
  /\ Exists(client(resources[pos]).key)
  /\ calls' = Append(calls, Call("create", pos, "exists"))
  /\ pos' = pos + 1
  /\ pc' = "applyGet"
  /\ UNCHANGED <<resources, remote, installs, queue, req, a, ret,
                 faults, externals, run, snap, parsed, extDeleted, others>>

\* c.Create succeeds: the object sent is stored
ApplyCreate ==
  /\ pc = "applyCreate"
  /\ ~Exists(client(resources[pos]).key)
  /\ remote' = remote \cup
       {[key |-> client(resources[pos]).key,
         kind |-> resources[pos].kind,
         ownerReferences |-> resources[pos].ownerReferences,
         by |-> req]}
  /\ calls' = Append(calls, Call("create", pos, "created"))
  /\ pos' = pos + 1
  /\ pc' = "applyGet"
  /\ UNCHANGED <<resources, installs, queue, req, a, ret,
                 faults, externals, run, snap, parsed, extDeleted, others>>

\* the loop is over: Apply returns nil, Reconcile goes on to the status update
ApplyDone ==
  /\ pc = "applyGet" /\ pos > Len(resources)
  /\ ret' = [call |-> "Apply", err |-> NIL, at |-> 0]
  /\ pc' = "update"
  /\ ApplyReturned
  /\ UNCHANGED <<resources, remote, installs, queue, req, pos, a, calls,
                 faults, externals, parsed, extDeleted, others>>

\* --------------------------------- Reconcile: after Apply has returned
\* (mutation) the failed request is dropped instead of requeued
ApplyFailedDropped ==
  /\ pc = "failed"
  /\ UNCHANGED queue
  /\ Returned
  /\ UNCHANGED <<resources, remote, installs, faults, externals, run, snap, parsed, extDeleted, others>>

\* (mutation) the status is stored before Apply's error is looked at
ApplyFailedStoresStatus ==
  /\ pc = "failed"
  /\ installs' = [installs EXCEPT ![req].status =
                    [resources |-> ResourceNames(resources), version |-> "UNKNOWN"]]
  /\ queue' = queue \cup {req}
  /\ Returned
  /\ UNCHANGED <<resources, remote, faults, externals, run, snap, parsed, extDeleted, others>>

\* Apply returned an error: Reconcile returns it and the request is requeued
ApplyFailed ==
  /\ pc = "failed"
  /\ queue' = queue \cup {req}
  /\ Returned
  /\ UNCHANGED <<resources, remote, installs, faults, externals, run, snap, parsed, extDeleted, others>>

\* getKnativeServingVersion(): the environment's value, or "UNKNOWN"
getKnativeServingVersion == "UNKNOWN"

\* r.client.Status().Update fails (a remote error, or the Install is gone):
\* Reconcile returns the error and the request is requeued
StatusUpdateError ==
  /\ pc = "update"
  /\ \/ /\ installs[req].phase # "present"
        /\ UNCHANGED faults
     \/ /\ installs[req].phase = "present"
        /\ faults < MaxFaults
        /\ faults' = faults + 1
  /\ queue' = queue \cup {req}
  /\ Returned
  /\ UNCHANGED <<resources, remote, installs, externals, run, snap, parsed, extDeleted, others>>

\* (mutation) only the resources that this Apply created are reported
StatusUpdateCreatedOnly ==
  /\ pc = "update"
  /\ installs[req].phase = "present"
  /\ LET made == SelectSeq([j \in 1..Len(resources) |-> j],
                           LAMBDA j : \E k \in 1..Len(calls) :
                                        calls[k] = Call("create", j, "created"))
     IN installs' = [installs EXCEPT ![req].status =
                       [resources |-> [nil |-> Len(made) = 0,
                                       items |-> [k \in 1..Len(made) |->
                                                    ResourceNames(resources).items[made[k]]]],
                        version |-> getKnativeServingVersion]]
  /\ queue' = IF installs' # installs THEN queue \cup {req} ELSE queue
  /\ Returned
  /\ UNCHANGED <<resources, remote, faults, externals, run, snap, parsed, extDeleted, others>>

\* the status is stored; a changed Install is a watch event for it
StatusUpdate ==
  /\ pc = "update"
  /\ installs[req].phase = "present"
  /\ installs' = [installs EXCEPT ![req].status =
                    [resources |-> ResourceNames(resources),
                     version |-> getKnativeServingVersion]]
  /\ queue' = IF installs' # installs THEN queue \cup {req} ELSE queue
  /\ Returned
  /\ UNCHANGED <<resources, remote, faults, externals, run, snap, parsed, extDeleted, others>>

\* --------------------------------------------------------------- Delete
\* (mutation) a resource that does not resolve is skipped
DeleteResolveSkipped ==
  /\ pc = "delete" /\ pos <= Len(a)
  /\ client(resources[a[pos]]).err
  /\ pos' = pos + 1
  /\ UNCHANGED <<resources, remote, installs, queue, pc, req, a, calls, ret,
                 faults, externals, run, snap, parsed, extDeleted, others>>

\* client() fails for the resource at a[pos]: Delete returns the error
DeleteResolveError ==
  /\ pc = "delete" /\ pos <= Len(a)
  /\ client(resources[a[pos]]).err
  /\ ret' = [call |-> "Delete", err |-> "resolve", at |-> a[pos]]
  /\ pc' = "deleted"
  /\ UNCHANGED <<resources, remote, installs, queue, req, pos, a, calls,
                 faults, externals, run, snap, parsed, extDeleted, others>>

\* c.Delete removes the object
DeleteRemoved ==
  /\ pc = "delete" /\ pos <= Len(a)
  /\ ~client(resources[a[pos]]).err
  /\ Exists(client(resources[a[pos]]).key)
  /\ remote' = {o \in remote : o.key # client(resources[a[pos]]).key}
  /\ calls' = Append(calls, Call("delete", a[pos], "deleted"))
  /\ pos' = pos + 1
  /\ UNCHANGED <<resources, installs, queue, pc, req, a, ret,
                 faults, externals, run, snap, parsed, extDeleted, others>>

\* c.Delete answers not-found: ignored
DeleteNotFound ==
  /\ pc = "delete" /\ pos <= Len(a)
  /\ ~client(resources[a[pos]]).err
  /\ ~Exists(client(resources[a[pos]]).key)
  /\ calls' = Append(calls, Call("delete", a[pos], "notfound"))
  /\ pos' = pos + 1
  /\ UNCHANGED <<resources, remote, installs, queue, pc, req, a, ret,
                 faults, externals, run, snap, parsed, extDeleted, others>>

\* (mutation) the delete error is returned to the caller
DeleteErrorReturned ==
  /\ pc = "delete" /\ pos <= Len(a)
  /\ ~client(resources[a[pos]]).err
  /\ faults < MaxFaults
  /\ faults' = faults + 1
  /\ calls' = Append(calls, Call("delete", a[pos], "error"))
  /\ ret' = [call |-> "Delete", err |-> "delete", at |-> a[pos]]
  /\ pc' = "deleted"
  /\ UNCHANGED <<resources, remote, installs, queue, req, pos, a,
                 externals, run, snap, parsed, extDeleted, others>>

\* c.Delete fails with another error: ignored
DeleteError ==
  /\ pc = "delete" /\ pos <= Len(a)
  /\ ~client(resources[a[pos]]).err
  /\ faults < MaxFaults
  /\ faults' = faults + 1
  /\ calls' = Append(calls, Call("delete", a[pos], "error"))
  /\ pos' = pos + 1
  /\ UNCHANGED <<resources, remote, installs, queue, pc, req, a, ret,
                 externals, run, snap, parsed, extDeleted, others>>

\* the loop is over: Delete returns nil
DeleteDone ==
  /\ pc = "delete" /\ pos > Len(a)
  /\ ret' = [call |-> "Delete", err |-> NIL, at |-> 0]
  /\ pc' = "deleted"
  /\ UNCHANGED <<resources, remote, installs, queue, req, pos, a, calls,
                 faults, externals, run, snap, parsed, extDeleted, others>>

\* (mutation) an error of Delete is returned and the request is requeued
DeleteReturnedRequeues ==
  /\ pc = "deleted"
  /\ queue' = IF ret.err # NIL THEN queue \cup {req} ELSE queue
  /\ Returned
  /\ UNCHANGED <<resources, remote, installs, faults, externals, run, snap, parsed, extDeleted, others>>

\* Reconcile drops whatever Delete returned and returns without requeue
DeleteReturned ==
  /\ pc = "deleted"
  /\ Returned
  /\ UNCHANGED <<resources, remote, installs, queue, faults, externals, run, snap, parsed, extDeleted, others>>

\* ---------------------------------------------------------- environment
\* an Install is created (by a user, or by autoInstall): a watch event
CreateInstall(i) ==
  /\ installs[i].phase = "new"
  /\ installs' = [installs EXCEPT ![i].phase = "present"]
  /\ queue' = queue \cup {i}
  /\ UNCHANGED <<resources, remote, pc, req, pos, a, calls, ret,
                 faults, externals, run, snap, parsed, extDeleted, others>>

\* an Install is deleted: a watch event
DeleteInstall(i) ==
  /\ installs[i].phase = "present"
  /\ installs' = [installs EXCEPT ![i].phase = "gone"]
  /\ queue' = queue \cup {i}
  /\ UNCHANGED <<resources, remote, pc, req, pos, a, calls, ret,
                 faults, externals, run, snap, parsed, extDeleted, others>>

\* another actor creates an object the manifest describes
ExternalCreate ==
  /\ externals < MaxExternal
  /\ \E i \in 1..Len(resources) :
       /\ ~client(resources[i]).err
       /\ ~Exists(client(resources[i]).key)
       /\ remote' = remote \cup
            {[key |-> client(resources[i]).key, kind |-> resources[i].kind,
              ownerReferences |-> <<>>, by |-> "external"]}
  /\ externals' = externals + 1
  /\ Disturbed
  /\ UNCHANGED <<resources, installs, queue, pc, req, pos, a, calls, ret, faults, parsed, extDeleted, others>>

\* another actor (a user, the platform's garbage collector) removes an object
ExternalDelete ==
  /\ externals < MaxExternal
  /\ \E o \in remote : remote' = remote \ {o}
  /\ externals' = externals + 1
  /\ extDeleted' = TRUE
  /\ Disturbed
  /\ UNCHANGED <<resources, installs, queue, pc, req, pos, a, calls, ret, faults, parsed,
                 others>>

Reconcile ==
  \/ FetchError
  \/ FetchNotFound
  \/ FetchApplied
  \/ FetchApply
  \/ ApplyFailed
  \/ StatusUpdateError
  \/ StatusUpdate
  \/ DeleteReturned

Apply ==
  \/ ApplyResolveError
  \/ ApplyGetError
  \/ ApplyGetFound
  \/ ApplyGetNotFound
  \/ ApplyCreateError
  \/ ApplyCreateExists
  \/ ApplyCreate
  \/ ApplyDone

Delete ==
  \/ DeleteResolveError
  \/ DeleteRemoved
  \/ DeleteNotFound
  \/ DeleteError
  \/ DeleteDone

Environment ==
  \/ \E i \in DOMAIN installs : CreateInstall(i)
  \/ \E i \in DOMAIN installs : DeleteInstall(i)
  \/ ExternalCreate
  \/ ExternalDelete

Next == Reconcile \/ Apply \/ Delete \/ Environment

Spec == Init /\ [][Next]_vars

\* the controller's worker keeps taking requests off its queue and every
\* remote call returns
FairSpec == Spec /\ WF_vars(Reconcile \/ Apply \/ Delete)

\* ------------------------------------------- two Install objects, one engine
\* every Install of the cluster is reconciled against the one YamlFile of
\* newReconciler: the same controller with two Install objects
TwoInstalls == {"i1", "i2"}

\* the manifests drawn here: the runs of up to MaxLenTwo consecutive documents
\* of one file
TwoFile ==
  << Document(KNamespace, VCore, "", "knative-serving", <<>>),
     Document(KDeployment, VApps, "knative-serving", "activator", <<>>),
     Document(KService, VBad, "knative-serving", "controller", <<>>),
     Document(KCrd, VApps, "", "images", <<"chart">>) >>

TwoManifests ==
  {SubSeq(TwoFile, i, j) : i \in 1..(Len(TwoFile) + 1), j \in 0..Len(TwoFile)}
    \cap {m \in Manifests : Len(m) <= MaxLenTwo}

InitTwo ==
  /\ resources \in TwoManifests
  /\ ParseReturned(resources) /\ NoPlural /\ NoPool
  /\ parsed = resources
  /\ remote = {}
  /\ installs = [i \in TwoInstalls |-> [phase |-> "new", status |-> NoStatus]]
  /\ queue = {}
  /\ pc = "idle"
  /\ req = NIL
  /\ pos = 0
  /\ a = <<>>
  /\ calls = <<>>
  /\ ret = NoRet
  /\ faults = 0
  /\ externals = 0
  /\ run = "fresh"
  /\ snap = {}
  /\ extDeleted = FALSE

TwoSpec == InitTwo /\ [][Next]_vars


\* ------------------------------------------------------- pluralize alone
\* the controller is not being looked at
NoController ==
  /\ resources = <<>> /\ parsed = <<>> /\ remote = {}
  /\ installs = <<>> /\ queue = {}
  /\ pc = "idle" /\ req = NIL /\ pos = 0 /\ a = <<>> /\ calls = <<>> /\ ret = NoRet
  /\ faults = 0 /\ externals = 0 /\ run = "fresh" /\ snap = {} /\ extDeleted = FALSE

\* the kinds pluralize is given: every string of up to MaxKindLen of these
\* letters, and the shortest of them with one of these endings
KindLetters == {"P", "s", "y", "c"}
KindEndings ==
  { <<"p","o","l","i","c","y">>, <<"P","o","l","i","c","Y">>, <<"P","O","L","I","C","Y">>,
    <<"o","l","i","c","y">>, <<"p","o","l","i","c","y","s">>, <<"p","o","l","i","c","i","e","s">>,
    <<"p","o","l","i","c","y","!">>, <<"S">> }
ShortKinds == UNION {[1..n -> KindLetters] : n \in 0..MaxKindLen}
Kinds ==
  ShortKinds
    \cup {k \o e : k \in {s \in ShortKinds : Len(s) <= 1}, e \in KindEndings}
    \cup {KService, KNetworkPolicy, KIngress, KNamespace, KDeployment, KCrd}

InitPlural ==
  /\ pKind \in Kinds /\ pDone = FALSE /\ pResource = <<>>
  /\ NoController /\ ParseReturned(<<>>) /\ NoPool

\* client() calls pluralize(spec.GetKind())
Pluralize ==
  /\ ~pDone
  /\ pResource' = pluralize(pKind)
  /\ pDone' = TRUE
  /\ UNCHANGED <<pKind, controller, pipeline, pool>>

PluralNext == Pluralize

PluralSpec == InitPlural /\ [][PluralNext]_vars

\* ------------------------------------------------------ parse() alone
\* make(chan []byte, 10), make(chan unstructured.Unstructured, 10)
QueueCap == 10

DocKinds == {"yaml", "garbage", "empty"}

\* the files parse() is given; a document is named by its place in the file.
\* Short files hold any mix of documents; files longer than a channel holds
\* are all yaml, or all yaml but one document.
ShortFiles ==
  UNION {{[i \in 1..n |-> RawDoc(k[i], [name |-> i])] : k \in [1..n -> DocKinds]} : n \in 0..MaxLen}
LongFiles ==
  UNION {{[i \in 1..n |-> RawDoc(IF i = p THEN k ELSE "yaml", [name |-> i])]
            : p \in 0..n, k \in DocKinds \ {"yaml"}}
           : n \in (QueueCap + 1)..MaxDocs}
ParseFiles ==
  {[opens |-> TRUE, docs |-> d] : d \in ShortFiles \cup LongFiles}
    \cup {[opens |-> FALSE, docs |-> <<>>]}

\* parse() has made the channels and started read() and decode()
InitParse ==
  /\ file \in ParseFiles
  /\ proc = "running"
  /\ rpc = "open" /\ rpos = 1
  /\ in = <<>> /\ inClosed = 0
  /\ dpc = "recv" /\ dbuf = NoSpec
  /\ out = <<>> /\ outClosed = 0
  /\ ppc = "range" /\ result = <<>>
  /\ NoController /\ NoPlural /\ NoPool

\* (mutation) read() closes the sink and returns when the file does not open
ReadOpenFailureReturns ==
  /\ proc = "running" /\ rpc = "open"
  /\ ~file.opens
  /\ inClosed' = inClosed + 1
  /\ rpc' = "done"
  /\ UNCHANGED <<file, proc, rpos, in, dpc, dbuf, out, outClosed, ppc, result>>
  /\ UNCHANGED <<controller, plural, pool>>

\* read(): os.Open fails and read panics; a panic in a goroutine ends the process
ReadPanic ==
  /\ proc = "running" /\ rpc = "open"
  /\ ~file.opens
  /\ rpc' = "panic"
  /\ proc' = "crashed"
  /\ UNCHANGED <<file, rpos, in, inClosed, dpc, dbuf, out, outClosed, ppc, result>>
  /\ UNCHANGED <<controller, plural, pool>>

\* read(): the file opens
ReadOpen ==
  /\ proc = "running" /\ rpc = "open"
  /\ file.opens
  /\ rpc' = "read"
  /\ UNCHANGED <<file, proc, rpos, in, inClosed, dpc, dbuf, out, outClosed, ppc, result>>
  /\ UNCHANGED <<controller, plural, pool>>

\* read(): manifests.Read returns the next document and sink <- b goes
\* through, which it does once the channel has room
ReadSend ==
  /\ proc = "running" /\ rpc = "read"
  /\ rpos <= Len(file.docs)
  /\ Len(in) < QueueCap
  /\ in' = Append(in, file.docs[rpos])
  /\ rpos' = rpos + 1
  /\ UNCHANGED <<file, proc, rpc, inClosed, dpc, dbuf, out, outClosed, ppc, result>>
  /\ UNCHANGED <<controller, plural, pool>>

\* read(): manifests.Read returns io.EOF: break, close(sink)
ReadClose ==
  /\ proc = "running" /\ rpc = "read"
  /\ rpos > Len(file.docs)
  /\ inClosed' = inClosed + 1
  /\ rpc' = "done"
  /\ UNCHANGED <<file, proc, rpos, in, dpc, dbuf, out, outClosed, ppc, result>>
  /\ UNCHANGED <<controller, plural, pool>>

\* (mutation) a document that does not decode ends decode()
DecodeErrorStops ==
  /\ proc = "running" /\ dpc = "recv"
  /\ in # <<>>
  /\ Decode(Head(in)).err # NIL
  /\ in' = Tail(in)
  /\ outClosed' = outClosed + 1
  /\ dpc' = "done"
  /\ UNCHANGED <<file, proc, rpc, rpos, inClosed, dbuf, out, ppc, result>>
  /\ UNCHANGED <<controller, plural, pool>>

\* decode(): the document received does not decode (logged unless the error
\* is io.EOF): continue
DecodeDrop ==
  /\ proc = "running" /\ dpc = "recv"
  /\ in # <<>>
  /\ Decode(Head(in)).err # NIL
  /\ in' = Tail(in)
  /\ UNCHANGED <<file, proc, rpc, rpos, inClosed, dpc, dbuf, out, outClosed, ppc, result>>
  /\ UNCHANGED <<controller, plural, pool>>

\* decode(): the document received decodes into spec
DecodeOk ==
  /\ proc = "running" /\ dpc = "recv"
  /\ in # <<>>
  /\ Decode(Head(in)).err = NIL
  /\ in' = Tail(in)
  /\ dbuf' = Decode(Head(in)).spec
  /\ dpc' = "send"
  /\ UNCHANGED <<file, proc, rpc, rpos, inClosed, out, outClosed, ppc, result>>
  /\ UNCHANGED <<controller, plural, pool>>

\* decode(): out <- spec goes through once the channel has room
DecodeSend ==
  /\ proc = "running" /\ dpc = "send"
  /\ Len(out) < QueueCap
  /\ out' = Append(out, dbuf)
  /\ dbuf' = NoSpec
  /\ dpc' = "recv"
  /\ UNCHANGED <<file, proc, rpc, rpos, in, inClosed, outClosed, ppc, result>>
  /\ UNCHANGED <<controller, plural, pool>>

\* (mutation) decode() returns without closing out
DecodeReturnsUnclosed ==
  /\ proc = "running" /\ dpc = "recv"
  /\ in = <<>> /\ inClosed > 0
  /\ dpc' = "done"
  /\ UNCHANGED <<file, proc, rpc, rpos, in, inClosed, dbuf, out, outClosed, ppc, result>>
  /\ UNCHANGED <<controller, plural, pool>>

\* decode(): in is closed and drained: the range ends, close(out)
DecodeClose ==
  /\ proc = "running" /\ dpc = "recv"
  /\ in = <<>> /\ inClosed > 0
  /\ outClosed' = outClosed + 1
  /\ dpc' = "done"
  /\ UNCHANGED <<file, proc, rpc, rpos, in, inClosed, dbuf, out, ppc, result>>
  /\ UNCHANGED <<controller, plural, pool>>

\* parse(): a resource is received from out and appended to result
ParseAppend ==
  /\ proc = "running" /\ ppc = "range"
  /\ out # <<>>
  /\ result' = Append(result, Head(out))
  /\ out' = Tail(out)
  /\ UNCHANGED <<file, proc, rpc, rpos, in, inClosed, dpc, dbuf, outClosed, ppc>>
  /\ UNCHANGED <<controller, plural, pool>>

\* parse(): out is closed and drained: the range ends and result is returned
\* to NewYamlFile
ParseReturn ==
  /\ proc = "running" /\ ppc = "range"
  /\ out = <<>> /\ outClosed > 0
  /\ ppc' = "returned"
  /\ UNCHANGED <<file, proc, rpc, rpos, in, inClosed, dpc, dbuf, out, outClosed, result>>
  /\ UNCHANGED <<controller, plural, pool>>

Reader == ReadPanic \/ ReadOpen \/ ReadSend \/ ReadClose
Decoder == DecodeDrop \/ DecodeOk \/ DecodeSend \/ DecodeClose
Collector == ParseAppend \/ ParseReturn

ParseNext == Reader \/ Decoder \/ Collector

ParseSpec == InitParse /\ [][ParseNext]_vars

\* the scheduler runs every goroutine that can take a step
ParseFairSpec ==
  ParseSpec /\ WF_vars(Reader) /\ WF_vars(Decoder) /\ WF_vars(Collector)

\* ------------------------------------------------- the controller's workers
\* controller.Options{Reconciler: r} sets no MaxConcurrentReconciles, and
\* controller.New then starts one worker
MaxConcurrentReconciles == 1

\* (mutation) a second worker
WorkersTwo == 1..(MaxConcurrentReconciles + 1)

Workers == 1..MaxConcurrentReconciles

Idle == [req |-> NIL, call |-> "none"]

\* the controller has been started: its workers wait on the empty queue
InitPool ==
  /\ wqueue = {}
  /\ winstalls = [i \in TwoInstalls |-> [phase |-> "new", applied |-> FALSE]]
  /\ working = [w \in Workers |-> Idle]
  /\ NoController /\ ParseReturned(<<>>) /\ NoPlural

\* the queue hands out a request that no worker is processing
Takes(w, i) ==
  /\ working[w] = Idle
  /\ i \in wqueue
  /\ \A v \in DOMAIN working : working[v].req # i
  /\ wqueue' = wqueue \ {i}

\* an Install is created or deleted: the watch enqueues a request for it
PoolCreateInstall(i) ==
  /\ winstalls[i].phase = "new"
  /\ winstalls' = [winstalls EXCEPT ![i].phase = "present"]
  /\ wqueue' = wqueue \cup {i}
  /\ UNCHANGED <<working, controller, pipeline, plural>>

PoolDeleteInstall(i) ==
  /\ winstalls[i].phase = "present"
  /\ winstalls' = [winstalls EXCEPT ![i].phase = "gone"]
  /\ wqueue' = wqueue \cup {i}
  /\ UNCHANGED <<working, controller, pipeline, plural>>

\* Reconcile: the Install is not found, r.config.Delete() is called
PoolFetchNotFound(w, i) ==
  /\ Takes(w, i)
  /\ winstalls[i].phase # "present"
  /\ working' = [working EXCEPT ![w] = [req |-> i, call |-> "Delete"]]
  /\ UNCHANGED <<winstalls, controller, pipeline, plural>>

\* Reconcile: the Install has its status, Reconcile returns
PoolFetchApplied(w, i) ==
  /\ Takes(w, i)
  /\ winstalls[i].phase = "present" /\ winstalls[i].applied
  /\ UNCHANGED <<working, winstalls, controller, pipeline, plural>>

\* Reconcile: the Install has no status, r.config.Apply(instance) is called
PoolFetchApply(w, i) ==
  /\ Takes(w, i)
  /\ winstalls[i].phase = "present" /\ ~winstalls[i].applied
  /\ working' = [working EXCEPT ![w] = [req |-> i, call |-> "Apply"]]
  /\ UNCHANGED <<winstalls, controller, pipeline, plural>>

\* Apply returns an error, or the status update fails: Reconcile returns the
\* error and the request is requeued
PoolApplyFailed(w) ==
  /\ working[w].call = "Apply"
  /\ wqueue' = wqueue \cup {working[w].req}
  /\ working' = [working EXCEPT ![w] = Idle]
  /\ UNCHANGED <<winstalls, controller, pipeline, plural>>

\* Apply returns nil and the status is stored: a watch event for the Install
PoolApplyDone(w) ==
  /\ working[w].call = "Apply"
  /\ winstalls[working[w].req].phase = "present"
  /\ winstalls' = [winstalls EXCEPT ![working[w].req].applied = TRUE]
  /\ wqueue' = wqueue \cup {working[w].req}
  /\ working' = [working EXCEPT ![w] = Idle]
  /\ UNCHANGED <<controller, pipeline, plural>>

\* Delete returns: Reconcile returns without requeue
PoolDeleteReturned(w) ==
  /\ working[w].call = "Delete"
  /\ working' = [working EXCEPT ![w] = Idle]
  /\ UNCHANGED <<wqueue, winstalls, controller, pipeline, plural>>

PoolNext ==
  \/ \E i \in DOMAIN winstalls : PoolCreateInstall(i)
  \/ \E i \in DOMAIN winstalls : PoolDeleteInstall(i)
  \/ \E w \in DOMAIN working, i \in DOMAIN winstalls : PoolFetchNotFound(w, i)
  \/ \E w \in DOMAIN working, i \in DOMAIN winstalls : PoolFetchApplied(w, i)
  \/ \E w \in DOMAIN working, i \in DOMAIN winstalls : PoolFetchApply(w, i)
  \/ \E w \in DOMAIN working : PoolApplyFailed(w)
  \/ \E w \in DOMAIN working : PoolApplyDone(w)
  \/ \E w \in DOMAIN working : PoolDeleteReturned(w)

PoolSpec == InitPool /\ [][PoolNext]_vars

\* ============================================================ properties
Creates == {k \in 1..Len(calls) : calls[k].op = "create"}
Unresolvable == {i \in 1..Len(resources) : client(resources[i]).err}

\* the second of two Apply calls in a row from the empty store, with no remote
\* error from the store and no external mutation, is running / has returned
SecondApplyRunning == run = "once" /\ pc \in {"applyGet", "applyCreate"}
SecondApplyReturned == run = "twice" /\ pc \in {"update", "failed"}

\* C1 (as stated): the second Apply leaves the objects the first one left,
\* issues no create request and returns no error, for every manifest.
C1_IdempotentNoError ==
  /\ SecondApplyRunning => (remote = snap /\ Creates = {} /\ pc # "applyCreate")
  /\ SecondApplyReturned => (remote = snap /\ Creates = {} /\ ret.err = NIL)

\* C1 (amended): the second Apply leaves the objects the first one left and
\* issues no create request; it returns no error unless a resource's
\* apiVersion cannot be parsed, and then it returns that resolution error.
C1_Idempotent ==
  /\ SecondApplyRunning => (remote = snap /\ Creates = {} /\ pc # "applyCreate")
  /\ SecondApplyReturned =>
       /\ remote = snap /\ Creates = {}
       /\ ret.err = (IF Unresolvable = {} THEN NIL ELSE "resolve")

\* a second Apply returned without error after finding all three resources
C1_Witness ==
  /\ SecondApplyReturned /\ ret.err = NIL
  /\ Len(resources) = 3 /\ Cardinality(remote) = 3
  /\ Len(calls) = 3


InApply == pc \in {"applyGet", "applyCreate", "update", "failed"}
InDelete == pc \in {"delete", "deleted"}
Gets(k) == {j \in 1..k : calls[j].op = "get"}

\* C2: Apply's remote calls go through the resources in file order, one
\* resource at a time (its existence check, then its create if it was absent,
\* before anything for the next resource); Delete's delete requests go through
\* them in reverse file order.  A returned nil means no resource was left out.
C2_OrderPreserved ==
  /\ InApply =>
       /\ \A k \in 1..Len(calls) :
            /\ calls[k].op \in {"get", "create"}
            /\ calls[k].op = "get" =>
                 /\ calls[k].idx = Cardinality(Gets(k))
                 /\ k > 1 => \/ calls[k-1] = Call("get", calls[k].idx - 1, "found")
                             \/ /\ calls[k-1].op = "create"
                                /\ calls[k-1].idx = calls[k].idx - 1
                                /\ calls[k-1].out \in {"created", "exists"}
            /\ calls[k].op = "create" =>
                 k > 1 /\ calls[k-1] = Call("get", calls[k].idx, "notfound")
       /\ pc = "update" => Cardinality(Gets(Len(calls))) = Len(resources)
  /\ InDelete =>
       /\ \A k \in 1..Len(calls) :
            calls[k].op = "delete" /\ calls[k].idx = Len(resources) - k + 1
       /\ (pc = "deleted" /\ ret.err = NIL) => Len(calls) = Len(resources)

\* a Delete went through three resources, last to first, removing objects that
\* an Apply created first to last
C2_Witness ==
  /\ pc = "deleted" /\ Len(calls) = 3
  /\ \A k \in 1..3 : calls[k] = Call("delete", 4 - k, "deleted")
  /\ \A i \in 1..3 : resources[i].kind = <<KNamespace, KDeployment, KCrd>>[i]


Issued(c) == \E k \in 1..Len(calls) : calls[k] = c
KeyOf(i) == client(resources[i]).key

\* the create request for the resource at i has just failed
CreateFailedAt(i) == InApply /\ Issued(Call("create", i, "error"))

\* C3, the state of a failed create: the call has returned that error at once
\* (the failed create is its last remote call, so nothing was issued for a
\* later resource), and every earlier resource that the existence check saw
\* absent has had its create answered created or already-exists.
C3_FailedCreateState ==
  \A i \in 1..Len(resources) :
    CreateFailedAt(i) =>
      /\ pc = "failed"
      /\ ret = [call |-> "Apply", err |-> "create", at |-> i]
      /\ calls[Len(calls)] = Call("create", i, "error")
      /\ \A k \in 1..Len(calls) : calls[k].idx <= i
      /\ \A j \in 1..(i-1) :
           \/ Issued(Call("get", j, "found"))
           \/ /\ Issued(Call("get", j, "notfound"))
              /\ \/ Issued(Call("create", j, "created"))
                 \/ Issued(Call("create", j, "exists"))

\* C3, no rollback: no step of Apply, nor of Reconcile handling its
\* error, removes an object from the remote store.
C3_NoRollback ==
  (pc \in {"applyGet", "applyCreate", "failed"} /\ externals' = externals)
    => remote \subseteq remote'

\* C3: partial-failure containment
C3_PartialFailure == [](C3_FailedCreateState) /\ [][C3_NoRollback]_vars

\* the second of three creates failed: the first object is there, the third
\* resource was not touched
C3_Witness ==
  /\ Len(resources) = 3 /\ CreateFailedAt(2)
  /\ Issued(Call("create", 1, "created"))
  /\ Exists(KeyOf(1)) /\ ~Exists(KeyOf(3))
  /\ Len(calls) = 4


Range(f) == {f[x] : x \in DOMAIN f}
CreatedByApply == {o \in remote : o.by \in DOMAIN installs}

\* C4: an object that Apply created carries the owner reference of the
\* caller of that Apply if and only if its kind, lower-cased, is none of
\* namespace, clusterrole, clusterrolebinding, customresourcedefinition.
C4_OwnershipPolicy ==
  \A o \in CreatedByApply :
    (o.by \in Range(o.ownerReferences)) <=> (ToLower(o.kind) \notin ExemptKinds)

\* one Apply created a Namespace and a customresourcedefinition without the
\* owner reference and a Deployment with it
C4_Witness ==
  /\ \E o \in CreatedByApply : o.kind = KNamespace /\ o.ownerReferences = <<>>
  /\ \E o \in CreatedByApply : o.kind = KCrd /\ o.ownerReferences = <<"chart">>
  /\ \E o \in CreatedByApply : o.kind = KDeployment /\ o.ownerReferences = <<o.by>>


Max(S) == CHOOSE x \in S : \A y \in S : y <= x
DeleteOutcomes == {"deleted", "notfound", "error"}

\* C5 (as stated): whatever the delete requests answer, a Delete that has
\* returned has issued one delete request per manifest resource, last to
\* first, and has returned no error.
C5_DeleteAllNoError ==
  /\ pc = "delete" => Len(calls) = pos - 1
  /\ pc = "deleted" =>
       /\ ret.err = NIL
       /\ Len(calls) = Len(resources)
       /\ \A k \in 1..Len(calls) :
            /\ calls[k].op = "delete" /\ calls[k].idx = Len(resources) - k + 1
            /\ calls[k].out \in DeleteOutcomes

\* the resources that Delete reaches: those after the last unparsable one
DeleteReach == IF Unresolvable = {} THEN 0 ELSE Max(Unresolvable)

\* C5 (amended): whatever the delete requests answer, Delete goes on to the
\* next resource in reverse file order; it stops only at a resource whose
\* apiVersion cannot be parsed, and that resolution error is the only error
\* it returns.
C5_DeleteResilient ==
  /\ pc = "delete" => Len(calls) = pos - 1
  /\ pc = "deleted" =>
       /\ ret.err = (IF Unresolvable = {} THEN NIL ELSE "resolve")
       /\ ret.at = DeleteReach
       /\ Len(calls) = Len(resources) - DeleteReach
       /\ \A k \in 1..Len(calls) :
            /\ calls[k].op = "delete" /\ calls[k].idx = Len(resources) - k + 1
            /\ calls[k].out \in DeleteOutcomes

\* the delete of the second resource failed and Delete still went on to the
\* first and returned nil
C5_Witness ==
  /\ pc = "deleted" /\ ret.err = NIL /\ Len(resources) = 3
  /\ calls = <<Call("delete", 3, "notfound"), Call("delete", 2, "error"),
               Call("delete", 1, "deleted")>>


\* C6: a create answered already-exists (the object appeared between the
\* existence check, which said not-found, and the create) is no error: Apply
\* goes on to the next resource in file order, or returns nil if there is
\* none, and whatever it returns later is not an error for that resource.
C6_CreateRaceTolerated ==
  InApply =>
    \A k \in 1..Len(calls) :
      (calls[k].op = "create" /\ calls[k].out = "exists") =>
        LET i == calls[k].idx IN
        /\ k > 1 /\ calls[k-1] = Call("get", i, "notfound")
        /\ ~(ret.call = "Apply" /\ ret.err # NIL /\ ret.at = i)
        /\ IF k < Len(calls)
           THEN calls[k+1].op = "get" /\ calls[k+1].idx = i + 1
           ELSE \/ pc = "applyGet" /\ pos = i + 1
                \/ pc = "update" /\ i = Len(resources) /\ ret.err = NIL
                \/ pc = "failed" /\ ret.err = "resolve" /\ ret.at = i + 1

\* another actor created the first resource's object between its existence
\* check and its create; Apply went on, created the second and returned nil
C6_Witness ==
  /\ pc = "update" /\ ret.err = NIL /\ Len(resources) = 2
  /\ calls = <<Call("get", 1, "notfound"), Call("create", 1, "exists"),
               Call("get", 2, "notfound"), Call("create", 2, "created")>>
  /\ \E o \in remote : o.key = KeyOf(1) /\ o.by = "external"


\* the existence check for the resource at i has failed
GetFailedAt(i) == InApply /\ Issued(Call("get", i, "error"))

\* C7, the state of a failed existence check: Apply has returned that error
\* at once; the failed check is its last remote call, so there is no create
\* for the resource and no call for a later one.
C7_FailedGetState ==
  \A i \in 1..Len(resources) :
    GetFailedAt(i) =>
      /\ pc = "failed"
      /\ ret = [call |-> "Apply", err |-> "get", at |-> i]
      /\ calls[Len(calls)] = Call("get", i, "error")
      /\ \A k \in 1..Len(calls) :
           calls[k].idx <= i /\ ~(calls[k].op = "create" /\ calls[k].idx = i)

\* C7, the step of a failed existence check leaves the remote store as it was
C7_FailedGetStep ==
  (Len(calls') = Len(calls) + 1 /\ calls'[Len(calls')].op = "get"
     /\ calls'[Len(calls')].out = "error")
    => remote' = remote

\* C7: existence-check failure
C7_GetFailure == [](C7_FailedGetState) /\ [][C7_FailedGetStep]_vars

\* the existence check of the second of three resources failed after the
\* first was created
C7_Witness ==
  /\ Len(resources) = 3 /\ GetFailedAt(2)
  /\ Issued(Call("create", 1, "created"))
  /\ Exists(KeyOf(1)) /\ ~Exists(KeyOf(2)) /\ ~Exists(KeyOf(3))


Present(i) == installs[i].phase = "present"
AllExist == \A j \in 1..Len(resources) : ~client(resources[j]).err /\ Exists(KeyOf(j))
StatusStored(i) ==
  installs[i].status = [resources |-> ResourceNames(resources),
                        version |-> getKnativeServingVersion]
Converged(i) == AllExist /\ StatusStored(i)

\* in one Apply, a resource that the existence check found gets no create
FoundIsSkipped ==
  InApply =>
    \A k \in 1..Len(calls) :
      calls[k].out = "found" =>
        ~\E m \in 1..Len(calls) : calls[m].op = "create" /\ calls[m].idx = calls[k].idx

\* C8 (as stated): while the Install exists, retrying after every failure
\* leads, once the remote errors have stopped, to every manifest resource
\* existing with the Install's status stored; what exists is skipped.
C8_ConvergesAlways ==
  /\ \A i \in Installs : Present(i) ~> (~Present(i) \/ Converged(i))
  /\ []FoundIsSkipped

\* C8 (amended): the same, for a manifest whose apiVersions all parse and as
\* long as no other actor removes an object.
C8_Converges ==
  /\ \A i \in Installs :
       (Present(i) /\ Unresolvable = {})
         ~> (~Present(i) \/ Converged(i) \/ extDeleted)
  /\ []FoundIsSkipped

\* a retry after a failed attempt: the first object, created by the attempt
\* that failed, is found and skipped, the second is created now
C8_Witness ==
  /\ pc = "update" /\ faults = 1 /\ externals = 0 /\ Len(resources) = 2
  /\ calls = <<Call("get", 1, "found"), Call("get", 2, "notfound"),
               Call("create", 2, "created")>>
  /\ AllExist


\* C9: the stored manifest is what the parse produced, ownerReferences
\* included, whatever Apply and Delete calls have run.
C9_ManifestImmutable == resources = parsed

Min(S) == CHOOSE x \in S : \A y \in S : x <= y

\* C10, the states: no remote call is ever issued for a resource whose
\* apiVersion does not parse, nor for one that follows it in the call's
\* order; the call that reaches it returns the resolution error for it, and
\* a call returns nil only if it met none.
C10_ResolutionState ==
  /\ InApply =>
       /\ \A u \in Unresolvable : \A k \in 1..Len(calls) : calls[k].idx < u
       /\ \A u \in Unresolvable : pos <= u
       /\ (pc = "update") => Unresolvable = {}
       /\ (pc = "failed" /\ ret.err = "resolve") => ret.at = Min(Unresolvable)
  /\ InDelete =>
       /\ \A u \in Unresolvable : \A k \in 1..Len(calls) : calls[k].idx > u
       /\ \A u \in Unresolvable : pos <= Len(resources) - u + 1
       /\ (pc = "deleted" /\ ret.err = NIL) => Unresolvable = {}
       /\ (pc = "deleted" /\ ret.err # NIL) =>
            ret = [call |-> "Delete", err |-> "resolve", at |-> Max(Unresolvable)]

\* C10, the step: returning the resolution error issues no remote call and
\* undoes nothing in the remote store
C10_ResolutionStep ==
  (ret'.err = "resolve" /\ ret.err # "resolve")
    => (remote' = remote /\ calls' = calls)

\* C10: a resolution error is fatal for the call
C10_ResolutionFatal == [](C10_ResolutionState) /\ [][C10_ResolutionStep]_vars

\* Delete removed the third resource's object, stopped at the second, whose
\* apiVersion does not parse, and left the first resource's object in place
C10_Witness ==
  /\ pc = "deleted" /\ Len(resources) = 3
  /\ ret = [call |-> "Delete", err |-> "resolve", at |-> 2]
  /\ calls = <<Call("delete", 3, "deleted")>>
  /\ Exists(KeyOf(1))


\* the identifier ResourceNames() reports for a document: name, apiVersion, kind
Identifier(d) == <<d.name, d.apiVersion, d.kind>>
Identifiers(docs) == [j \in 1..Len(docs) |-> Identifier(docs[j])]
ListStored(i) == ~installs[i].status.resources.nil
StatusWritten(i) == installs[i].status.version # NIL

\* the resource at j was observed existing, or created, or reported
\* already-exists by the running Apply
Processed(j) ==
  \/ Issued(Call("get", j, "found"))
  \/ /\ Issued(Call("get", j, "notfound"))
     /\ Issued(Call("create", j, "created")) \/ Issued(Call("create", j, "exists"))

\* C11, the state: the list stored in an Install's status holds one identifier
\* per manifest resource, in file order.
C11_StoredList ==
  \A i \in DOMAIN installs :
    StatusWritten(i) => installs[i].status.resources.items = Identifiers(parsed)

\* C11, the step: the list is stored after an Apply that returned nil, and it
\* names every resource that Apply went through, those it found already
\* existing as well as those it created.
C11_StoreStep ==
  (pc = "update" /\ installs'[req].status # installs[req].status) =>
    /\ ret = [call |-> "Apply", err |-> NIL, at |-> 0]
    /\ \A j \in 1..Len(parsed) : Processed(j)
    /\ installs'[req].status.resources.items = Identifiers(parsed)

\* C11: applied-resource reporting
C11_AppliedReported == [](C11_StoredList) /\ [][C11_StoreStep]_vars

\* the stored list names all three resources, one of which exists because
\* another actor created it, not the Apply
C11_Witness ==
  /\ Len(installs["i1"].status.resources.items) = 3
  /\ installs["i1"].status.resources.items = Identifiers(parsed)
  /\ \E o \in remote : o.by = "external"
  /\ Cardinality(remote) = 3

\* C18 (as stated): once an Install's status list is non-nil, the worker
\* never again runs Apply or Delete for it.
C18_AppliedOnceAlways ==
  \A i \in DOMAIN installs : ListStored(i) => ~(pc # "idle" /\ req = i)

\* C18 (amended), the state: once an Install's status list is non-nil, the
\* worker never again runs Apply or Delete for it as long as the Install exists.
C18_AppliedOnceState ==
  \A i \in DOMAIN installs :
    (ListStored(i) /\ Present(i)) => ~(pc # "idle" /\ req = i)

\* C18 (amended), the step: the Reconcile that fetches such an Install
\* returns at once and issues no remote call, whatever is left in the store.
C18_AppliedOnceStep ==
  \A i \in queue :
    (i \notin queue' /\ ListStored(i) /\ Present(i)) =>
      (pc' = "idle" /\ calls' = <<>> /\ remote' = remote /\ installs' = installs)

\* C18 (amended): apply-once per existing Install
C18_AppliedOnce == [](C18_AppliedOnceState) /\ [][C18_AppliedOnceStep]_vars

\* the Install's list is stored, another actor has removed an object, the
\* request has been taken off the queue and the object has not come back
C18_Witness ==
  /\ Present("i1") /\ ListStored("i1") /\ extDeleted
  /\ queue = {} /\ pc = "idle"
  /\ Cardinality(remote) < Len(resources)

\* C19, the step: an Install's status changes only in the step after an Apply
\* for it returned nil, a single pass in which every manifest resource was
\* observed existing, created, or reported already-exists.
C19_SetStep ==
  \A i \in DOMAIN installs :
    installs'[i].status # installs[i].status =>
      /\ pc = "update" /\ req = i
      /\ ret = [call |-> "Apply", err |-> NIL, at |-> 0]
      /\ \A j \in 1..Len(resources) : Processed(j)

\* C19, the failures: the step that returns a failed Apply's error, a step in
\* which a remote call fails, and a status update for an Install that is
\* gone, leave every status as it was.
C19_FailStep ==
  (pc = "failed" \/ faults' # faults \/ (pc = "update" /\ ~Present(req))) =>
    \A i \in DOMAIN installs : installs'[i].status = installs[i].status

\* C19, the state: the Install of a failed Apply has no list stored.
C19_FailState == pc = "failed" => ~ListStored(req)

\* C19: a stored status implies a completed Apply
C19_StatusAfterApply ==
  [](C19_FailState) /\ [][C19_SetStep /\ C19_FailStep]_vars

\* the status has just been stored, on the retry after an attempt that failed
C19_Witness ==
  /\ pc = "idle" /\ queue = {"i1"} /\ faults = 1
  /\ ListStored("i1") /\ Len(resources) = 3 /\ AllExist

\* C17, the fetch: the request taken off the queue starts Delete exactly when
\* its Install is not found, whatever other Install objects exist; Delete
\* starts in no other way.
C17_FetchStep ==
  /\ \A i \in queue :
       i \notin queue' => ((pc' = "delete" /\ req' = i) <=> ~Present(i))
  /\ (pc # "delete" /\ pc' = "delete") =>
       \E i \in queue : i \notin queue' /\ ~Present(i) /\ req' = i

\* C17, the rest of that Reconcile: only delete requests are issued, no Apply
\* starts, and when Delete has returned, error or not, Reconcile returns
\* without putting the request back.
C17_DeleteStep ==
  /\ pc = "delete" => pc' \in {"delete", "deleted"}
  /\ pc = "deleted" => (pc' \in {"deleted", "idle"} /\ (pc' = "idle" => queue' = queue))
  /\ pc' \in {"delete", "deleted"} =>
       \A k \in 1..Len(calls') : calls'[k].op = "delete"

\* C17, another fetch error: neither Apply nor Delete starts, nothing is
\* issued, and the request stays queued for the retry.
C17_FetchErrorStep ==
  (pc = "idle" /\ faults' # faults) =>
    (pc' = "idle" /\ queue' = queue /\ queue # {} /\ remote' = remote /\ calls' = <<>>)

\* C17: Reconcile on a missing Install
C17_MissingInstall == [][C17_FetchStep /\ C17_DeleteStep /\ C17_FetchErrorStep]_vars

\* Delete has run for the deleted Install i1, and has failed, while the
\* Install i2 exists and objects of the manifest are in the store
C17_Witness ==
  /\ pc = "deleted" /\ req = "i1" /\ ret.err # NIL
  /\ ~Present("i1") /\ Present("i2")
  /\ remote # {}

\* C20: whatever Delete calls have run, the stored sequence names the
\* documents in file order; a running Delete holds the reversed copy and its
\* delete requests go last document first; the creates of a running Apply go
\* in file order.
C20_FileOrderKept ==
  /\ Identifiers(resources) = Identifiers(parsed)
  /\ pc = "delete" => a = [k \in 1..Len(parsed) |-> Len(parsed) - k + 1]
  /\ InDelete =>
       \A k \in 1..Len(calls) :
         /\ calls[k].op = "delete"
         /\ Identifier(resources[calls[k].idx]) = Identifier(parsed[Len(parsed) - k + 1])
  /\ InApply =>
       \A k, m \in Creates : k < m => calls[k].idx < calls[m].idx

\* the second of two consecutive Deletes (the Installs i1 and i2 are both
\* gone and both requests have been taken) went through the two
\* resources last to first, as the first one had
C20_Witness ==
  /\ pc = "deleted" /\ req = "i2" /\ queue = {}
  /\ installs["i1"].phase = "gone" /\ installs["i2"].phase = "gone"
  /\ Len(resources) = 2
  /\ calls = <<Call("delete", 2, "notfound"), Call("delete", 1, "notfound")>>
  /\ ListStored("i1")

\* the endings of the claim, read off the lower-cased kind letter by letter
EndsInS(k) == Len(k) >= 1 /\ k[Len(k)] = "s"
EndsInPolicy(k) ==
  /\ Len(k) >= 6
  /\ \A j \in 1..6 : k[Len(k) - 6 + j] = <<"p","o","l","i","c","y">>[j]
Lowered(k) ==
  /\ Len(pResource) >= Len(k)
  /\ \A j \in 1..Len(k) :
       IF k[j] \in UpperSet
       THEN \E u \in 1..Len(UpperCase) : UpperCase[u] = k[j] /\ pResource[j] = LowerCase[u]
       ELSE pResource[j] = k[j]

\* C15, the rule: the resource name is the lower-cased kind with "es" appended if that
\* ends in "s", else with its last "y" replaced by "ies" if it ends in
\* "policy", else with "s" appended.
C15_Rule ==
  pDone =>
    LET low == ToLower(pKind)
        n == Len(pKind)
    IN CASE EndsInS(low) ->
              /\ Len(pResource) = n + 2 /\ Lowered(pKind)
              /\ pResource[n + 1] = "e" /\ pResource[n + 2] = "s"
         [] ~EndsInS(low) /\ EndsInPolicy(low) ->
              /\ Len(pResource) = n + 2 /\ Lowered(SubSeq(pKind, 1, n - 1))
              /\ SubSeq(pResource, n, n + 2) = <<"i","e","s">>
         [] OTHER ->
              /\ Len(pResource) = n + 1 /\ Lowered(pKind)
              /\ pResource[n + 1] = "s"

\* C15, the three kinds it names
C15_Examples ==
  /\ (pDone /\ pKind = KService) => pResource = <<"s","e","r","v","i","c","e","s">>
  /\ (pDone /\ pKind = KIngress) => pResource = <<"i","n","g","r","e","s","s","e","s">>
  /\ (pDone /\ pKind = KNetworkPolicy) =>
       pResource = <<"n","e","t","w","o","r","k","p","o","l","i","c","i","e","s">>

\* C15: pluralization
C15_Pluralization == C15_Rule /\ C15_Examples

\* pluralize has returned "networkpolicies" for NetworkPolicy
C15_Witness ==
  /\ pDone /\ pKind = KNetworkPolicy
  /\ pResource = <<"n","e","t","w","o","r","k","p","o","l","i","c","i","e","s">>

\* the documents of the file that decode, in the order of the file
Decodable == SelectSeq(file.docs, LAMBDA d : d.kind = "yaml")
Bodies(docs) == [j \in 1..Len(docs) |-> docs[j].body]
IsPrefix(s, t) == Len(s) <= Len(t) /\ SubSeq(t, 1, Len(s)) = s

\* C12: what parse() has collected is at every moment a prefix of the
\* documents that decode, in file order, and what it returns is all of them:
\* a document that does not decode is left out and nothing else is.
C12_DecodeTolerance ==
  /\ IsPrefix(result, Bodies(Decodable))
  /\ ppc = "returned" => result = Bodies(Decodable)

\* a file of a document that does not decode between two that do has been
\* parsed into the two, in their order
C12_Witness ==
  /\ ppc = "returned"
  /\ file.docs = <<RawDoc("yaml", [name |-> 1]), RawDoc("garbage", [name |-> 2]),
                  RawDoc("yaml", [name |-> 3])>>
  /\ result = <<[name |-> 1], [name |-> 3]>>

\* read() has tried to open a file that does not open
OpenFailed == ~file.opens /\ rpc # "open"

\* C13 (as stated): when the file does not open, the caller of the
\* constructor gets control back with an error, and never with a list.
C13_OpenFailurePropagated ==
  /\ OpenFailed => ppc = "error"
  /\ ~file.opens => (ppc # "returned" /\ result = <<>>)

\* C13 (amended), the states: when the file does not open, read() panics and
\* the process is over; parse() has not returned, so its caller has neither
\* a list nor an error; both channels are as they were made.
C13_OpenFailureState ==
  /\ OpenFailed => (proc = "crashed" /\ rpc = "panic")
  /\ ~file.opens =>
       /\ ppc = "range" /\ result = <<>>
       /\ in = <<>> /\ out = <<>> /\ inClosed = 0 /\ outClosed = 0

\* C13 (amended): a file that does not open ends the process, at once: no
\* goroutine is left waiting on a channel
C13_OpenFailureFatal ==
  /\ [](C13_OpenFailureState)
  /\ (~file.opens) ~> (proc = "crashed")
  /\ [][proc = "crashed" => UNCHANGED vars]_vars

\* the file did not open and the process is over, parse() still in its loop
C13_Witness ==
  /\ ~file.opens /\ proc = "crashed" /\ rpc = "panic"
  /\ ppc = "range" /\ dpc = "recv"

AllDone == rpc = "done" /\ dpc = "done" /\ ppc = "returned"

\* C16, the states: a channel never holds more than its capacity and is
\* closed at most once, by its sender when it is done; when parse() returns,
\* both goroutines are over, both channels are closed and drained, and every
\* document of the file has been read.
C16_PipelineState ==
  /\ Len(in) <= QueueCap /\ Len(out) <= QueueCap
  /\ inClosed = (IF rpc = "done" THEN 1 ELSE 0)
  /\ outClosed = (IF dpc = "done" THEN 1 ELSE 0)
  /\ dpc = "done" => (rpc = "done" /\ in = <<>>)
  /\ ppc = "returned" =>
       /\ AllDone /\ out = <<>>
       /\ rpos = Len(file.docs) + 1

InEngine == {w \in DOMAIN working : working[w].call \in {"Apply", "Delete"}}

====
